---------------------------- MODULE Spec2Model ----------------------------
(***************************************************************************)
(* Model of peer/record.go of go-libp2p-core: the PeerRecord type, its     *)
(* wire codec, its Sign / MarshalSigned operations and its Equal, together *)
(* with the record.Envelope decode pipeline that consumes signed records.  *)
(*                                                                         *)
(* Byte strings are sequences of small naturals.  A Go pointer is a        *)
(* sequence of length at most one: <<>> is nil, <<v>> points to v.         *)
(***************************************************************************)
EXTENDS Integers, Sequences, FiniteSets, TLC

\* ---------------------------------------------------------------- bounds
\* longest address list of a record / of a wire message
MaxAddrs == 2
\* largest sequence number
MaxSeqNo == 1

\* ------------------------------------------------------------- utilities
SeqsUpTo(S, n) == UNION {[1..k -> S] : k \in 0..n}

RECURSIVE Flatten(_)
Flatten(ss) == IF ss = <<>> THEN <<>> ELSE Head(ss) \o Flatten(Tail(ss))

\* Go's (value, error) result pair
Ok(v) == [err |-> "nil", val |-> <<v>>]
Fail(e) == [err |-> e, val |-> <<>>]

\* --------------------------------------------------------------- keys, IDs
\* crypto.PrivKey values: two key pairs, and a key whose public key cannot be
\* serialised (IDFromPrivateKey returns an error for it).
GoodKeys == {1, 2}
BrokenKey == 3
PrivKeys == GoodKeys \cup {BrokenKey}

\* privKey.GetPublic(), as the serialised public key bytes
GetPublic(sk) == <<200 + sk>>

\* mh.Cast: a multihash is <<code, length>> followed by length digest bytes
ValidMultihash(b) == /\ Len(b) >= 2
                     /\ b[1] \in {0, 18}
                     /\ b[2] = Len(b) - 2
                     /\ b[2] >= 1

\* peer.IDFromPublicKey: the identity multihash of the public key bytes
IDFromPublicKey(pk) == <<0, Len(pk)>> \o pk

\* peer.IDFromPrivateKey
IDFromPrivateKey(sk) ==
    IF sk = BrokenKey THEN Fail("key serialization") ELSE Ok(IDFromPublicKey(GetPublic(sk)))

\* the zero value of peer.ID (the empty string)
ZeroID == <<>>

\* ID.MarshalBinary: the identity's bytes
ID_MarshalBinary(id) == Ok(id)

\* ID.UnmarshalBinary: the bytes must be a multihash
ID_UnmarshalBinary(b) == IF ValidMultihash(b) THEN Ok(b) ELSE Fail("malformed peer id")

\* the identities a record can carry
IDs == {ZeroID} \cup {IDFromPublicKey(GetPublic(k)) : k \in GoodKeys}

\* ------------------------------------------------------------ multiaddrs
\* ma.Multiaddr as the value of its byte representation.  bytes <<4, x>> is
\* /ip4/x; the empty multiaddr (ma.Join() of nothing) has no bytes.
Multiaddr(b) == [bytes |-> b]
Bytes(a) == a.bytes

RECURSIVE validateBytes(_)
validateBytes(b) ==
    IF b = <<>> THEN TRUE
    ELSE /\ Head(b) = 4
         /\ Len(b) >= 2
         /\ validateBytes(SubSeq(b, 3, Len(b)))

\* ma.NewMultiaddrBytes: rejects the empty byte string and unknown protocol codes
NewMultiaddrBytes(b) ==
    IF b # <<>> /\ validateBytes(b) THEN Ok(Multiaddr(b)) ELSE Fail("invalid multiaddr")

\* Multiaddr.Equal compares the byte representations
MaEqual(a, b) == Bytes(a) = Bytes(b)

WellFormedAddr(a) == NewMultiaddrBytes(Bytes(a)).err = "nil"

\* addresses a record holds in memory: two well-formed ones, the empty one
MemAddrs == {Multiaddr(<<4, 1>>), Multiaddr(<<4, 2>>), Multiaddr(<<>>)}

\* address bytes a remote peer sends: the well-formed ones and one with a
\* protocol code this decoder does not know
WireAddrs == {<<4, 1>>, <<4, 2>>, <<9, 1>>}

\* ------------------------------------------------------------- PeerRecord
PeerRecord(id, addrs, seq) == [PeerID |-> id, Addrs |-> addrs, Seq |-> seq]

SeqNos == 0..MaxSeqNo

PeerRecords == {PeerRecord(id, as, s) : id \in IDs, as \in SeqsUpTo(MemAddrs, MaxAddrs), s \in SeqNos}

\* *PeerRecord: nil or a pointer to a record
RecordPtrs == {<<>>} \cup {<<r>> : r \in PeerRecords}


\* -------------------------------------------------------- protobuf codec
\* A length-delimited field: tag byte, length, payload
Field(tag, b) == <<tag, Len(b)>> \o b

\* pb.PeerRecord_AddressInfo: field 1 (tag byte 10) multiaddr; proto3 omits
\* an empty bytes field
AddressInfoMarshal(ai) == IF ai.Multiaddr = <<>> THEN <<>> ELSE Field(10, ai.Multiaddr)

\* pb.PeerRecord: field 1 (tag 10) peer_id, field 2 (tag 18) repeated
\* addresses, field 3 (tag 24) seq as a varint; proto3 omits empty and zero
pbPeerRecord(id, addrs, seq) == [PeerId |-> id, Addresses |-> addrs, Seq |-> seq]

\* proto.Marshal of a pb.PeerRecord
protoMarshal(msg) ==
    (IF msg.PeerId = <<>> THEN <<>> ELSE Field(10, msg.PeerId))
    \o Flatten([i \in 1..Len(msg.Addresses) |-> Field(18, AddressInfoMarshal(msg.Addresses[i]))])
    \o (IF msg.Seq = 0 THEN <<>> ELSE <<24, msg.Seq>>)

RECURSIVE parseAddressInfo(_, _)
parseAddressInfo(b, ai) ==
    IF b = <<>> THEN Ok(ai)
    ELSE IF Head(b) # 10 THEN Fail("illegal tag")
    ELSE IF Len(b) < 2 \/ Len(b) < 2 + b[2] THEN Fail("unexpected EOF")
    ELSE parseAddressInfo(SubSeq(b, 3 + b[2], Len(b)),
                          [ai EXCEPT !.Multiaddr = SubSeq(b, 3, 2 + b[2])])

RECURSIVE parsePeerRecord(_, _)
parsePeerRecord(b, msg) ==
    IF b = <<>> THEN Ok(msg)
    ELSE IF Head(b) = 24
    THEN IF Len(b) < 2 THEN Fail("unexpected EOF")
         ELSE parsePeerRecord(SubSeq(b, 3, Len(b)), [msg EXCEPT !.Seq = b[2]])
    ELSE IF Head(b) \in {10, 18}
    THEN IF Len(b) < 2 \/ Len(b) < 2 + b[2] THEN Fail("unexpected EOF")
         ELSE LET payload == SubSeq(b, 3, 2 + b[2])
                  rest == SubSeq(b, 3 + b[2], Len(b))
                  ai == parseAddressInfo(payload, [Multiaddr |-> <<>>])
              IN  IF Head(b) = 10 THEN parsePeerRecord(rest, [msg EXCEPT !.PeerId = payload])
                  ELSE IF ai.err # "nil" THEN ai
                  ELSE parsePeerRecord(rest, [msg EXCEPT !.Addresses = Append(@, ai.val[1])])
    ELSE Fail("illegal tag")

\* proto.Unmarshal into a zero pb.PeerRecord
protoUnmarshal(b) == parsePeerRecord(b, pbPeerRecord(<<>>, <<>>, 0))

\* ------------------------------------------------- record.go: the codec glue
\* addrsToProtobuf: one AddressInfo per address, in order
addrsToProtobuf(addrs) == [i \in 1..Len(addrs) |-> [Multiaddr |-> Bytes(addrs[i])]]

\* a decoder that stops at the first entry that fails to parse (break for
\* continue)
RECURSIVE addrsFromProtobuf_StopAtInvalid(_)
addrsFromProtobuf_StopAtInvalid(addrs) ==
    IF addrs = <<>> THEN <<>>
    ELSE LET a == NewMultiaddrBytes(Head(addrs).Multiaddr)
         IN  IF a.err # "nil" THEN <<>>
             ELSE <<a.val[1]>> \o addrsFromProtobuf_StopAtInvalid(Tail(addrs))

\* addrsFromProtobuf: parse each entry, skip the ones that fail, keep the order
RECURSIVE addrsFromProtobuf(_)
addrsFromProtobuf(addrs) ==
    IF addrs = <<>> THEN <<>>
    ELSE LET a == NewMultiaddrBytes(Head(addrs).Multiaddr)
         IN  IF a.err # "nil" THEN addrsFromProtobuf(Tail(addrs))
             ELSE <<a.val[1]>> \o addrsFromProtobuf(Tail(addrs))

\* TimestampSeq: the clock's reading, any sequence number
TimestampSeq == SeqNos

\* NewPeerRecord: only Seq is set
NewPeerRecord(ts) == <<PeerRecord(ZeroID, <<>>, ts)>>

\* PeerRecordFromAddrInfo
PeerRecordFromAddrInfo(info, ts) ==
    LET rec == NewPeerRecord(ts)
    IN  <<[rec[1] EXCEPT !.PeerID = info.ID, !.Addrs = info.Addrs]>>

\* a serialiser that leaves Seq out of the message
MarshalRecord_NoSeq(r) ==
    IF r = <<>> THEN Fail("panic")
    ELSE LET idBytes == ID_MarshalBinary(r[1].PeerID)
         IN  IF idBytes.err # "nil" THEN Fail(idBytes.err)
             ELSE Ok(protoMarshal(pbPeerRecord(idBytes.val[1], addrsToProtobuf(r[1].Addrs), 0)))

\* (r *PeerRecord) MarshalRecord; a nil receiver is dereferenced
MarshalRecord(r) ==
    IF r = <<>> THEN Fail("panic")
    ELSE LET idBytes == ID_MarshalBinary(r[1].PeerID)
         IN  IF idBytes.err # "nil" THEN Fail(idBytes.err)
             ELSE Ok(protoMarshal(pbPeerRecord(idBytes.val[1], addrsToProtobuf(r[1].Addrs), r[1].Seq)))

\* a decoder that stores Addrs and Seq before it has checked the identity
UnmarshalRecord_PartialWrite(r, bytes) ==
    IF r = <<>> THEN [err |-> "cannot unmarshal PeerRecord to nil receiver", r |-> r]
    ELSE LET msg == protoUnmarshal(bytes)
             id == ID_UnmarshalBinary(msg.val[1].PeerId)
             part == <<[r[1] EXCEPT !.Addrs = addrsFromProtobuf(msg.val[1].Addresses),
                                    !.Seq = msg.val[1].Seq]>>
         IN  IF msg.err # "nil" THEN [err |-> msg.err, r |-> r]
             ELSE IF id.err # "nil" THEN [err |-> id.err, r |-> part]
             ELSE [err |-> "nil", r |-> <<[part[1] EXCEPT !.PeerID = id.val[1]]>>]

\* (r *PeerRecord) UnmarshalRecord: the error returned and the receiver afterwards
UnmarshalRecord(r, bytes) ==
    IF r = <<>> THEN [err |-> "cannot unmarshal PeerRecord to nil receiver", r |-> r]
    ELSE LET msg == protoUnmarshal(bytes)
             id == ID_UnmarshalBinary(msg.val[1].PeerId)
         IN  IF msg.err # "nil" THEN [err |-> msg.err, r |-> r]
             ELSE IF id.err # "nil" THEN [err |-> id.err, r |-> r]
             ELSE [err |-> "nil",
                   r |-> <<[r[1] EXCEPT !.PeerID = id.val[1],
                                        !.Addrs = addrsFromProtobuf(msg.val[1].Addresses),
                                        !.Seq = msg.val[1].Seq]>>]

\* an Equal that compares the addresses as sets, whatever their order
Equal_IgnoresOrder(r, other) ==
    IF other = <<>> THEN (IF r = <<>> THEN "true" ELSE "false")
    ELSE IF r = <<>> THEN "panic"
    ELSE IF r[1].PeerID # other[1].PeerID THEN "false"
    ELSE IF r[1].Seq # other[1].Seq THEN "false"
    ELSE IF Len(r[1].Addrs) # Len(other[1].Addrs) THEN "false"
    ELSE IF {r[1].Addrs[i] : i \in 1..Len(r[1].Addrs)} # {other[1].Addrs[i] : i \in 1..Len(other[1].Addrs)}
    THEN "false"
    ELSE "true"

\* (r *PeerRecord) Equal(other): "true", "false", or "panic" where the code
\* dereferences a nil receiver
Equal(r, other) ==
    IF other = <<>> THEN (IF r = <<>> THEN "true" ELSE "false")
    ELSE IF r = <<>> THEN "panic"
    ELSE IF r[1].PeerID # other[1].PeerID THEN "false"
    ELSE IF r[1].Seq # other[1].Seq THEN "false"
    ELSE IF Len(r[1].Addrs) # Len(other[1].Addrs) THEN "false"
    ELSE IF \E i \in 1..Len(r[1].Addrs) : ~MaEqual(r[1].Addrs[i], other[1].Addrs[i]) THEN "false"
    ELSE "true"

\* ------------------------------------------------------ record.Envelope
\* "libp2p-peer-record", as its bytes
PeerRecordEnvelopeDomain ==
    <<108, 105, 98, 112, 50, 112, 45, 112, 101, 101, 114, 45, 114, 101, 99, 111, 114, 100>>

\* "/libp2p/peer-record", as its bytes
PeerRecordEnvelopePayloadType ==
    <<47, 108, 105, 98, 112, 50, 112, 47, 112, 101, 101, 114, 45, 114, 101, 99, 111, 114, 100>>

\* a signing message that concatenates the three parts with no lengths
makeUnsigned_NoLengths(domain, payloadType, payload) == domain \o payloadType \o payload

\* The signing message: domain, payload type and payload, each prefixed
\* with its length
makeUnsigned(domain, payloadType, payload) ==
    <<Len(domain)>> \o domain \o <<Len(payloadType)>> \o payloadType \o <<Len(payload)>> \o payload

\* privKey.Sign: an ideal signature, a function of the key and the message
\* that no other key and no other message yields
CryptoSign(sk, msg) == <<100 + sk>> \o msg

\* pubKey.Verify
CryptoVerify(pk, msg, sig) == \E sk \in GoodKeys : GetPublic(sk) = pk /\ sig = CryptoSign(sk, msg)

Envelope(pk, payloadType, payload, sig) ==
    [PublicKey |-> pk, PayloadType |-> payloadType, RawPayload |-> payload, signature |-> sig]

\* record.Seal / MakeEnvelopeWithRecord on already serialised payload bytes
MakeEnvelope(sk, domain, payloadType, payload) ==
    Envelope(GetPublic(sk), payloadType, payload, CryptoSign(sk, makeUnsigned(domain, payloadType, payload)))

\* record.MakeEnvelopeWithRecord: serialise the record, sign, wrap
MakeEnvelopeWithRecord(sk, domain, payloadType, r) ==
    LET payload == MarshalRecord(r)
    IN  IF payload.err # "nil" THEN Fail(payload.err)
        ELSE Ok(MakeEnvelope(sk, domain, payloadType, payload.val[1]))

\* (e *Envelope) validate(domain)
Validate(e, domain) ==
    CryptoVerify(e.PublicKey, makeUnsigned(domain, e.PayloadType, e.RawPayload), e.signature)

\* (e *Envelope) Marshal: fields 1, 2, 3 and 5 of the Envelope message
EnvelopeMarshal(e) ==
    Field(10, e.PublicKey) \o Field(18, e.PayloadType) \o Field(26, e.RawPayload) \o Field(42, e.signature)

RECURSIVE parseEnvelope(_, _)
parseEnvelope(b, e) ==
    IF b = <<>> THEN Ok(e)
    ELSE IF Head(b) \notin {10, 18, 26, 42} THEN Fail("illegal tag")
    ELSE IF Len(b) < 2 \/ Len(b) < 2 + b[2] THEN Fail("unexpected EOF")
    ELSE LET payload == SubSeq(b, 3, 2 + b[2])
             rest == SubSeq(b, 3 + b[2], Len(b))
         IN  parseEnvelope(rest,
                 CASE Head(b) = 10 -> [e EXCEPT !.PublicKey = payload]
                   [] Head(b) = 18 -> [e EXCEPT !.PayloadType = payload]
                   [] Head(b) = 26 -> [e EXCEPT !.RawPayload = payload]
                   [] OTHER -> [e EXCEPT !.signature = payload])

\* record.UnmarshalEnvelope: the wire message, then the public key in it
UnmarshalEnvelope(b) ==
    LET e == parseEnvelope(b, Envelope(<<>>, <<>>, <<>>, <<>>))
    IN  IF e.err # "nil" THEN e
        ELSE IF \A sk \in GoodKeys : GetPublic(sk) # e.val[1].PublicKey THEN Fail("invalid public key")
        ELSE e

\* ---------------------------------------------- record.go: Sign, MarshalSigned
\* a Sign that does not compare the key's identity with the record's
Sign_NoIdentityCheck(r, privKey) ==
    LET p == IDFromPrivateKey(privKey)
    IN  IF p.err # "nil" THEN Fail(p.err)
        ELSE IF r = <<>> THEN Fail("panic")
        ELSE MakeEnvelopeWithRecord(privKey, PeerRecordEnvelopeDomain, PeerRecordEnvelopePayloadType, r)

\* a Sign that passes the payload type where the domain belongs, and the
\* domain where the payload type belongs
Sign_ArgumentsSwapped(r, privKey) ==
    LET p == IDFromPrivateKey(privKey)
    IN  IF p.err # "nil" THEN Fail(p.err)
        ELSE IF r = <<>> THEN Fail("panic")
        ELSE IF p.val[1] # r[1].PeerID THEN Fail("ErrPeerIdMismatch")
        ELSE MakeEnvelopeWithRecord(privKey, PeerRecordEnvelopePayloadType, PeerRecordEnvelopeDomain, r)

\* (r *PeerRecord) Sign(privKey)
Sign(r, privKey) ==
    LET p == IDFromPrivateKey(privKey)
    IN  IF p.err # "nil" THEN Fail(p.err)
        ELSE IF r = <<>> THEN Fail("panic")
        ELSE IF p.val[1] # r[1].PeerID THEN Fail("ErrPeerIdMismatch")
        ELSE MakeEnvelopeWithRecord(privKey, PeerRecordEnvelopeDomain, PeerRecordEnvelopePayloadType, r)

\* (r *PeerRecord) MarshalSigned(privKey)
MarshalSigned(r, privKey) ==
    LET env == Sign(r, privKey)
    IN  IF env.err # "nil" THEN Fail(env.err)
        ELSE Ok(EnvelopeMarshal(env.val[1]))

\* ---------------------------------------------------------------- state
VARIABLES
    rec,        \* the *PeerRecord the program holds
    last,       \* the last operation applied: its inputs and what it returned
    payloadTypeRegistry,  \* record's registry: payload type tag -> record kind
    wire,       \* the envelope bytes in flight, and how they were made
    call        \* the ConsumeEnvelope call in progress

recVars == <<rec, last>>
envVars == <<payloadTypeRegistry, wire, call>>
vars == <<rec, last, payloadTypeRegistry, wire, call>>

\* pb.PeerRecord messages a remote peer may have serialised: any identity
\* bytes, any address bytes
WirePeerIds == {<<>>} \cup {IDFromPublicKey(GetPublic(k)) : k \in GoodKeys}

WireMessages ==
    {pbPeerRecord(id, [i \in 1..Len(as) |-> [Multiaddr |-> as[i]]], s) :
        id \in WirePeerIds, as \in SeqsUpTo(WireAddrs, MaxAddrs), s \in SeqNos}

\* the bytes that arrive: the serialised message, whole or with its last
\* byte cut off
Arriving(msg, cut) ==
    LET b == protoMarshal(msg)
    IN  IF cut /\ b # <<>> THEN SubSeq(b, 1, Len(b) - 1) ELSE b

AddrInfos == [ID : IDs, Addrs : SeqsUpTo(MemAddrs, MaxAddrs)]

\* record.RegisterPayloadType
RegisterPayloadType(registry, payloadType, kind) ==
    [t \in DOMAIN registry \cup {payloadType} |-> IF t = payloadType THEN kind ELSE registry[t]]

\* an init that registers the kind under the domain string
init_WrongTag == RegisterPayloadType(<<>>, PeerRecordEnvelopeDomain, "PeerRecord")

\* func init(): the PeerRecord kind is registered under its payload type
init == RegisterPayloadType(<<>>, PeerRecordEnvelopePayloadType, "PeerRecord")

NoWire == [from |-> "none", bytes |-> <<>>]
NoCall == [stage |-> "idle"]

Init ==
    /\ rec = <<>>
    /\ last = [op |-> "none"]
    /\ payloadTypeRegistry = init
    /\ wire = NoWire
    /\ call = NoCall

\* no call is in progress: the caller holds rec and no pending result
Idle == last.op = "none"

\* rec := NewPeerRecord()
DoNewPeerRecord ==
    /\ Idle
    /\ \E ts \in TimestampSeq : rec' = NewPeerRecord(ts)
    /\ UNCHANGED <<last, envVars>>

\* rec := PeerRecordFromAddrInfo(info)
DoPeerRecordFromAddrInfo ==
    /\ Idle
    /\ \E info \in AddrInfos, ts \in TimestampSeq : rec' = PeerRecordFromAddrInfo(info, ts)
    /\ UNCHANGED <<last, envVars>>

\* var rec *PeerRecord
DoDeclareNil ==
    /\ Idle
    /\ rec # <<>>
    /\ rec' = <<>>
    /\ UNCHANGED <<last, envVars>>

\* rec.MarshalRecord()
DoMarshalRecord ==
    /\ Idle
    /\ last' = [op |-> "MarshalRecord", r |-> rec, ret |-> MarshalRecord(rec)]
    /\ UNCHANGED <<rec, envVars>>

\* rec.UnmarshalRecord(bytes)
DoUnmarshalRecord ==
    /\ Idle
    /\ \E msg \in WireMessages, cut \in BOOLEAN :
        LET bytes == Arriving(msg, cut)
            out == UnmarshalRecord(rec, bytes)
        IN  /\ rec' = out.r
            /\ last' = [op |-> "UnmarshalRecord", r |-> rec, msg |-> msg,
                        cut |-> (bytes # protoMarshal(msg)), bytes |-> bytes, err |-> out.err]
    /\ UNCHANGED envVars

\* fresh := &PeerRecord{}; fresh.UnmarshalRecord(bytes of rec.MarshalRecord())
DoRoundTrip ==
    /\ Idle
    /\ rec # <<>>
    /\ LET m == MarshalRecord(rec)
           out == UnmarshalRecord(<<PeerRecord(ZeroID, <<>>, 0)>>, m.val[1])
       IN  last' = [op |-> "RoundTrip", r |-> rec, marshal |-> m,
                    err |-> IF m.err # "nil" THEN m.err ELSE out.err,
                    decoded |-> IF m.err # "nil" THEN <<>> ELSE out.r]
    /\ UNCHANGED <<rec, envVars>>

\* rec.Sign(privKey)
DoSign ==
    /\ Idle
    /\ \E privKey \in PrivKeys :
        last' = [op |-> "Sign", r |-> rec, privKey |-> privKey, ret |-> Sign(rec, privKey)]
    /\ UNCHANGED <<rec, envVars>>

\* rec.Equal(other)
DoEqual ==
    /\ Idle
    /\ \E other \in RecordPtrs :
        last' = [op |-> "Equal", r |-> rec, other |-> other, ret |-> Equal(rec, other)]
    /\ UNCHANGED <<rec, envVars>>

\* the call returns; the caller drops the result
DoReturn ==
    /\ ~Idle
    /\ last' = [op |-> "none"]
    /\ UNCHANGED <<rec, envVars>>

Next ==
    \/ DoNewPeerRecord
    \/ DoPeerRecordFromAddrInfo
    \/ DoDeclareNil
    \/ DoMarshalRecord
    \/ DoUnmarshalRecord
    \/ DoRoundTrip
    \/ DoSign
    \/ DoEqual
    \/ DoReturn

Spec == Init /\ [][Next]_vars

\* ------------------------------------------ envelopes in flight, consumed
\* another domain string and another payload type tag (one no record kind
\* registers): the domain with "/" appended, the tag without its "/"
OtherDomain == Append(PeerRecordEnvelopeDomain, 47)
OtherPayloadType == Tail(PeerRecordEnvelopePayloadType)

Domains == {PeerRecordEnvelopeDomain, OtherDomain}
PayloadTypes == {PeerRecordEnvelopePayloadType, OtherPayloadType}

\* payloads of envelopes sealed by other producers: a decodable record,
\* bytes that are no record
OtherPayloads == {Field(10, IDFromPublicKey(GetPublic(1))), <<7, 7>>}

\* one bit of byte i flipped
FlipBit(b, i) == [b EXCEPT ![i] = IF @ % 2 = 0 THEN @ + 1 ELSE @ - 1]

\* where the payload and the signature start in the bytes of Marshal
PayloadAt(w) == 3 + (2 + Len(w.payloadType)) + 2
SignatureAt(w) == PayloadAt(w) + Len(w.payload) + 2

\* the byte positions an attacker alters: first and last byte of the
\* payload, first and last byte of the signature
TamperAt(w) ==
    [payload |-> IF w.payload = <<>> THEN {}
                 ELSE {PayloadAt(w) + 1, PayloadAt(w) + Len(w.payload)},
     signature |-> {SignatureAt(w) + 1, SignatureAt(w) + Len(w.signature)}]

Sent(from, r, sk, domain, e) ==
    [from |-> from, r |-> r, key |-> sk, domain |-> domain,
     payloadType |-> e.PayloadType, payload |-> e.RawPayload, signature |-> e.signature,
     bytes |-> EnvelopeMarshal(e), tampered |-> "no"]

\* a peer publishes bytes := r.MarshalSigned(privKey)
DoMarshalSigned ==
    /\ call.stage = "idle"
    /\ wire.from = "none"
    /\ \E r \in RecordPtrs, sk \in GoodKeys :
        LET out == MarshalSigned(r, sk)
        IN  /\ out.err = "nil"
            /\ wire' = [Sent("MarshalSigned", r, sk, PeerRecordEnvelopeDomain, Sign(r, sk).val[1])
                            EXCEPT !.bytes = out.val[1]]
    /\ UNCHANGED <<recVars, payloadTypeRegistry, call>>

\* another producer seals a payload under a domain and a payload type
DoSeal ==
    /\ call.stage = "idle"
    /\ wire.from = "none"
    /\ \E sk \in GoodKeys, domain \in Domains, payloadType \in PayloadTypes, payload \in OtherPayloads :
        wire' = Sent("Seal", <<>>, sk, domain, MakeEnvelope(sk, domain, payloadType, payload))
    /\ UNCHANGED <<recVars, payloadTypeRegistry, call>>

\* the bytes are altered in flight: a bit of the payload or of the signature
\* flipped, the payload type or the public key replaced, the end cut off
DoTamper ==
    /\ call.stage = "idle"
    /\ wire.from # "none"
    /\ wire.tampered = "no"
    /\ \/ \E i \in TamperAt(wire).payload :
            wire' = [wire EXCEPT !.bytes = FlipBit(@, i), !.tampered = "payload"]
       \/ \E i \in TamperAt(wire).signature :
            wire' = [wire EXCEPT !.bytes = FlipBit(@, i), !.tampered = "signature"]
       \/ \E t \in PayloadTypes \ {wire.payloadType} :
            wire' = [wire EXCEPT !.bytes = EnvelopeMarshal(Envelope(GetPublic(wire.key), t, wire.payload, wire.signature)),
                                 !.tampered = "payloadType"]
       \/ \E sk \in GoodKeys \ {wire.key} :
            wire' = [wire EXCEPT !.bytes = EnvelopeMarshal(Envelope(GetPublic(sk), wire.payloadType, wire.payload, wire.signature)),
                                 !.tampered = "publicKey"]
       \/ wire' = [wire EXCEPT !.bytes = SubSeq(@, 1, Len(@) - 1), !.tampered = "truncated"]
    /\ UNCHANGED <<recVars, payloadTypeRegistry, call>>

\* ConsumeEnvelope(data, domain) is called on the bytes that arrived
ConsumeEnvelope_Call ==
    /\ call.stage = "idle"
    /\ wire.from # "none"
    /\ \E domain \in Domains :
        call' = [stage |-> "bytes", data |-> wire.bytes, domain |-> domain,
                 env |-> <<>>, retEnv |-> <<>>, retRec |-> <<>>, err |-> "nil",
                 path |-> <<"bytes">>, lookups |-> 0, decodes |-> 0]
    /\ UNCHANGED <<recVars, payloadTypeRegistry, wire>>

\* ... unmarshal
ConsumeEnvelope_Unmarshal ==
    /\ call.stage = "bytes"
    /\ LET e == UnmarshalEnvelope(call.data)
       IN  call' = IF e.err # "nil"
                   THEN [call EXCEPT !.stage = "rejected", !.err = "MalformedInput",
                                     !.path = Append(@, "rejected")]
                   ELSE [call EXCEPT !.stage = "unmarshalled", !.env = e.val,
                                     !.path = Append(@, "unmarshalled")]
    /\ UNCHANGED <<recVars, payloadTypeRegistry, wire>>

\* a consumer that goes on whatever validate returned
ConsumeEnvelope_ValidateIgnored ==
    /\ call.stage = "unmarshalled"
    /\ call' = [call EXCEPT !.stage = "validated", !.path = Append(@, "validated")]
    /\ UNCHANGED <<recVars, payloadTypeRegistry, wire>>

\* ... then validate
ConsumeEnvelope_Validate ==
    /\ call.stage = "unmarshalled"
    /\ call' = IF ~Validate(call.env[1], call.domain)
               THEN [call EXCEPT !.stage = "rejected", !.err = "InvalidSignature",
                                 !.path = Append(@, "rejected")]
               ELSE [call EXCEPT !.stage = "validated", !.path = Append(@, "validated")]
    /\ UNCHANGED <<recVars, payloadTypeRegistry, wire>>

\* ... then look the payload type up and decode the payload into a fresh
\* record of the registered kind
ConsumeEnvelope_Record ==
    /\ call.stage = "validated"
    /\ LET known == call.env[1].PayloadType \in DOMAIN payloadTypeRegistry
           out == UnmarshalRecord(<<PeerRecord(ZeroID, <<>>, 0)>>, call.env[1].RawPayload)
       IN  call' = IF ~known
                   THEN [call EXCEPT !.stage = "rejected", !.err = "UnknownPayloadType",
                                     !.retEnv = call.env, !.lookups = @ + 1,
                                     !.path = Append(@, "rejected")]
                   ELSE IF out.err # "nil"
                   THEN [call EXCEPT !.stage = "rejected", !.err = "MalformedPayload",
                                     !.lookups = @ + 1, !.decodes = @ + 1,
                                     !.path = Append(@, "rejected")]
                   ELSE [call EXCEPT !.stage = "decoded", !.retEnv = call.env, !.retRec = out.r,
                                     !.lookups = @ + 1, !.decodes = @ + 1,
                                     !.path = Append(@, "decoded")]
    /\ UNCHANGED <<recVars, payloadTypeRegistry, wire>>

\* the call has returned; the bytes are spent
ConsumeEnvelope_Return ==
    /\ call.stage \in {"decoded", "rejected"}
    /\ call' = NoCall
    /\ wire' = NoWire
    /\ UNCHANGED <<recVars, payloadTypeRegistry>>

NextEnv ==
    \/ DoMarshalSigned
    \/ DoSeal
    \/ DoTamper
    \/ ConsumeEnvelope_Call
    \/ ConsumeEnvelope_Unmarshal
    \/ ConsumeEnvelope_Validate
    \/ ConsumeEnvelope_Record
    \/ ConsumeEnvelope_Return

SpecEnv == Init /\ [][NextEnv]_vars

\* ------------------------------------------------------------ properties
AllWellFormed(addrs) == \A i \in 1..Len(addrs) : WellFormedAddr(addrs[i])

\* the entries of a wire message that parse as addresses, in their order
Parseable(addresses) ==
    LET sel == SelectSeq(addresses, LAMBDA ai : NewMultiaddrBytes(ai.Multiaddr).err = "nil")
    IN  [i \in 1..Len(sel) |-> Multiaddr(sel[i].Multiaddr)]

SameFields(a, b) ==
    /\ a.PeerID = b.PeerID
    /\ a.Seq = b.Seq
    /\ Len(a.Addrs) = Len(b.Addrs)
    /\ \A i \in 1..Len(a.Addrs) : MaEqual(a.Addrs[i], b.Addrs[i])

\* C1: Sign fails with ErrPeerIdMismatch and returns no Envelope whenever the
\* identity derived from privKey differs from the record's PeerID; an
\* Envelope is returned only when the two are equal, and then its public
\* key's identity is the record's PeerID and it wraps the record's bytes.
C1_SignEnforcesIdentity ==
    last.op = "Sign" =>
        LET p == IDFromPrivateKey(last.privKey)
        IN  /\ (p.err = "nil" /\ last.r # <<>> /\ p.val[1] # last.r[1].PeerID)
                   => (last.ret.err = "ErrPeerIdMismatch" /\ last.ret.val = <<>>)
            /\ last.ret.val # <<>>
                   => /\ last.ret.err = "nil"
                      /\ p.err = "nil"
                      /\ last.r # <<>>
                      /\ p.val[1] = last.r[1].PeerID
                      /\ IDFromPublicKey(last.ret.val[1].PublicKey) = last.r[1].PeerID
                      /\ Ok(last.ret.val[1].RawPayload) = MarshalRecord(last.r)

\* a key of one identity signing a record of the other identity
C1_Witness ==
    /\ last.op = "Sign"
    /\ last.r # <<>>
    /\ last.privKey \in GoodKeys
    /\ last.r[1].PeerID \in {IDFromPublicKey(GetPublic(k)) : k \in GoodKeys \ {last.privKey}}
    /\ last.ret.err = "ErrPeerIdMismatch"

\* C3 as stated: for any record whose addresses are all well-formed,
\* MarshalRecord succeeds and UnmarshalRecord of the bytes into a fresh
\* record succeeds and yields a record Equal to it.
C3_RoundTripAnyRecord ==
    (last.op = "RoundTrip" /\ AllWellFormed(last.r[1].Addrs)) =>
        /\ last.marshal.err = "nil"
        /\ last.err = "nil"
        /\ Equal(last.decoded, last.r) = "true"

\* C3 amended: the same for any record whose addresses are all well-formed
\* and whose PeerID is a well-formed identity; the decoded record has the
\* same PeerID, the same Seq and the same addresses in the same order.
C3_RoundTrip ==
    (last.op = "RoundTrip" /\ AllWellFormed(last.r[1].Addrs) /\ ValidMultihash(last.r[1].PeerID)) =>
        /\ last.marshal.err = "nil"
        /\ last.err = "nil"
        /\ Equal(last.decoded, last.r) = "true"
        /\ last.decoded[1].PeerID = last.r[1].PeerID
        /\ last.decoded[1].Seq = last.r[1].Seq
        /\ last.decoded[1].Addrs = last.r[1].Addrs

\* a record with two different well-formed addresses and a non-zero Seq
\* has made the round trip
C3_Witness ==
    /\ last.op = "RoundTrip"
    /\ ValidMultihash(last.r[1].PeerID)
    /\ Len(last.r[1].Addrs) = 2
    /\ AllWellFormed(last.r[1].Addrs)
    /\ last.r[1].Addrs[1] # last.r[1].Addrs[2]
    /\ last.r[1].Seq # 0
    /\ last.err = "nil"

\* C7 as stated: UnmarshalRecord on structurally valid bytes with a valid
\* peer identity always succeeds, whatever addresses fail to parse; Addrs is
\* then the parseable entries in their order and PeerID and Seq are the
\* message's; it fails only for structurally invalid input.
C7_LenientDecodeAnyReceiver ==
    last.op = "UnmarshalRecord" =>
        /\ (~last.cut /\ ValidMultihash(last.msg.PeerId)) =>
               /\ last.err = "nil"
               /\ rec # <<>>
               /\ rec[1].Addrs = Parseable(last.msg.Addresses)
               /\ rec[1].PeerID = last.msg.PeerId
               /\ rec[1].Seq = last.msg.Seq
        /\ last.err # "nil" => (last.cut \/ ~ValidMultihash(last.msg.PeerId))

\* C7 amended: the same for a present (non-nil) receiver; a nil receiver is
\* the one other cause of failure.
C7_LenientDecode ==
    last.op = "UnmarshalRecord" =>
        /\ (last.r # <<>> /\ ~last.cut /\ ValidMultihash(last.msg.PeerId)) =>
               /\ last.err = "nil"
               /\ rec # <<>>
               /\ rec[1].Addrs = Parseable(last.msg.Addresses)
               /\ rec[1].PeerID = last.msg.PeerId
               /\ rec[1].Seq = last.msg.Seq
        /\ last.err # "nil" => (last.r = <<>> \/ last.cut \/ ~ValidMultihash(last.msg.PeerId))

\* a message whose first address does not parse and whose second does has
\* been decoded
C7_Witness ==
    /\ last.op = "UnmarshalRecord"
    /\ last.err = "nil"
    /\ Len(last.msg.Addresses) = 2
    /\ NewMultiaddrBytes(last.msg.Addresses[1].Multiaddr).err # "nil"
    /\ NewMultiaddrBytes(last.msg.Addresses[2].Multiaddr).err = "nil"
    /\ Len(rec[1].Addrs) = 1

\* C8: for two present records, Equal is true exactly when PeerID, Seq and
\* the address sequences (index by index) agree; it is reflexive and
\* symmetric, and the record the program holds is left as it was.
C8_EqualStructural ==
    (last.op = "Equal" /\ last.r # <<>> /\ last.other # <<>>) =>
        /\ last.ret \in {"true", "false"}
        /\ (last.ret = "true") <=> SameFields(last.r[1], last.other[1])
        /\ Equal(last.other, last.r) = last.ret
        /\ Equal(last.r, last.r) = "true"
        /\ rec = last.r

\* two records with the same two addresses in the opposite order were
\* compared, and found different
C8_Witness ==
    /\ last.op = "Equal"
    /\ last.r # <<>>
    /\ last.other # <<>>
    /\ last.r[1].PeerID = last.other[1].PeerID
    /\ last.r[1].Seq = last.other[1].Seq
    /\ Len(last.r[1].Addrs) = 2
    /\ Len(last.other[1].Addrs) = 2
    /\ last.r[1].Addrs[1] # last.r[1].Addrs[2]
    /\ last.other[1].Addrs = <<last.r[1].Addrs[2], last.r[1].Addrs[1]>>
    /\ last.ret = "false"

\* C9: Equal returns a boolean for every pair of possibly absent records:
\* true when both are absent, false when exactly one is, whichever side.
C9_EqualTotalOverNil ==
    (last.op = "Equal" /\ (last.r = <<>> \/ last.other = <<>>)) =>
        /\ last.ret \in {"true", "false"}
        /\ (last.ret = "true") <=> (last.r = <<>> /\ last.other = <<>>)

\* C10: whenever UnmarshalRecord returns an error the receiver is exactly as
\* before; a nil receiver gives an error, not a crash; on success the three
\* fields all come from the message.
C10_UnmarshalAllOrNothing ==
    last.op = "UnmarshalRecord" =>
        /\ last.err # "panic"
        /\ last.r = <<>> => last.err # "nil"
        /\ last.err # "nil" => rec = last.r
        /\ last.err = "nil" =>
               /\ rec # <<>>
               /\ rec[1].PeerID = last.msg.PeerId
               /\ rec[1].Seq = last.msg.Seq
               /\ rec[1].Addrs = Parseable(last.msg.Addresses)

\* a populated receiver was offered a whole message with a malformed peer
\* identity, different addresses and a different Seq, and the call failed
C10_Witness ==
    /\ last.op = "UnmarshalRecord"
    /\ last.err # "nil"
    /\ ~last.cut
    /\ last.r # <<>>
    /\ last.r[1].Addrs # <<>>
    /\ last.r[1].Addrs # Parseable(last.msg.Addresses)
    /\ last.r[1].Seq # last.msg.Seq

\* ------------------------------------------------- envelope properties
InPath(stage) == \E i \in 1..Len(call.path) : call.path[i] = stage

Returned == call.stage \in {"decoded", "rejected"}

\* the paths of the decode pipeline: forward one stage at a time, nothing
\* after a rejection
LinearPaths ==
    {<<"bytes">>,
     <<"bytes", "rejected">>,
     <<"bytes", "unmarshalled">>,
     <<"bytes", "unmarshalled", "rejected">>,
     <<"bytes", "unmarshalled", "validated">>,
     <<"bytes", "unmarshalled", "validated", "rejected">>,
     <<"bytes", "unmarshalled", "validated", "decoded">>}

\* C2 as stated: for any record and any key whose identity is the record's
\* PeerID, consuming the bytes of MarshalSigned under the peer record domain
\* succeeds and returns an Envelope that validates under that domain and a
\* decoded record Equal to the record.
C2_SignConsumeAnyRecord ==
    (Returned /\ wire.from = "MarshalSigned" /\ wire.tampered = "no"
        /\ call.domain = PeerRecordEnvelopeDomain) =>
        /\ call.stage = "decoded"
        /\ call.err = "nil"
        /\ call.retEnv # <<>>
        /\ Validate(call.retEnv[1], PeerRecordEnvelopeDomain)
        /\ Equal(call.retRec, wire.r) = "true"

\* C2 amended: the same for any record whose addresses are all well-formed.
C2_SignConsumeRoundTrip ==
    (Returned /\ wire.from = "MarshalSigned" /\ wire.tampered = "no"
        /\ call.domain = PeerRecordEnvelopeDomain /\ AllWellFormed(wire.r[1].Addrs)) =>
        /\ call.stage = "decoded"
        /\ call.err = "nil"
        /\ call.retEnv # <<>>
        /\ Validate(call.retEnv[1], PeerRecordEnvelopeDomain)
        /\ call.retEnv[1].PayloadType = PeerRecordEnvelopePayloadType
        /\ Equal(call.retRec, wire.r) = "true"

\* a record with two addresses and a non-zero Seq was signed, consumed and
\* decoded
C2_Witness ==
    /\ call.stage = "decoded"
    /\ wire.from = "MarshalSigned"
    /\ wire.tampered = "no"
    /\ call.domain = PeerRecordEnvelopeDomain
    /\ Len(wire.r[1].Addrs) = 2
    /\ AllWellFormed(wire.r[1].Addrs)
    /\ wire.r[1].Seq # 0
    /\ call.retRec = wire.r

\* C4: the signature covers domain, payload type and payload jointly: the
\* envelope that arrived validates under the checked domain only if that is
\* the domain signed under and payload type, payload, signature and key are
\* the ones signed; an altered payload or signature and a different domain
\* make validate false; and the signing message of the triple checked is
\* that of the triple signed only if the triples are the same.
C4_SignatureCoversAll ==
    (call.stage # "idle" /\ call.env # <<>>) =>
        LET e == call.env[1]
            valid == Validate(e, call.domain)
        IN  /\ valid => /\ call.domain = wire.domain
                        /\ e.PayloadType = wire.payloadType
                        /\ e.RawPayload = wire.payload
                        /\ e.signature = wire.signature
                        /\ e.PublicKey = GetPublic(wire.key)
            /\ wire.tampered \in {"payload", "signature"} => ~valid
            /\ call.domain # wire.domain => ~valid
            /\ (makeUnsigned(call.domain, e.PayloadType, e.RawPayload)
                    = makeUnsigned(wire.domain, wire.payloadType, wire.payload))
                   => /\ call.domain = wire.domain
                      /\ e.PayloadType = wire.payloadType
                      /\ e.RawPayload = wire.payload
            /\ call.stage # "unmarshalled" => (valid <=> InPath("validated"))

\* the payload type was replaced in flight by one that shifts the boundary
\* between domain and payload type, the consumer checked the domain shifted
\* the other way, and validation failed
C4_Witness ==
    /\ call.stage = "rejected"
    /\ call.err = "InvalidSignature"
    /\ wire.tampered = "payloadType"
    /\ call.domain # wire.domain
    /\ call.domain \o call.env[1].PayloadType = wire.domain \o wire.payloadType

\* C5: the decode pipeline is linear: bytes, unmarshalled, validated, then
\* decoded or rejected, with nothing after a rejection; a decoded record is
\* returned only after unmarshal succeeded and validate returned true; when
\* validation fails the call fails with InvalidSignature, returns no record,
\* never consults the registry and never runs the record's decoder.
C5_LinearPipeline ==
    call.stage # "idle" =>
        /\ call.path \in LinearPaths
        /\ call.stage = call.path[Len(call.path)]
        /\ (call.retRec # <<>> \/ call.decodes > 0 \/ call.lookups > 0) =>
               /\ InPath("unmarshalled")
               /\ InPath("validated")
               /\ UnmarshalEnvelope(call.data).err = "nil"
               /\ Validate(call.env[1], call.domain)
        /\ call.retRec # <<>> => (call.stage = "decoded" /\ call.err = "nil")
        /\ (call.env # <<>> /\ call.stage # "unmarshalled" /\ ~Validate(call.env[1], call.domain)) =>
               /\ call.stage = "rejected"
               /\ call.err = "InvalidSignature"
               /\ call.retRec = <<>>
               /\ call.lookups = 0
               /\ call.decodes = 0
        /\ call.lookups <= 1
        /\ call.decodes <= 1

\* the bytes of MarshalSigned with a payload bit flipped were consumed and
\* rejected with InvalidSignature
C5_Witness ==
    /\ call.stage = "rejected"
    /\ call.err = "InvalidSignature"
    /\ wire.from = "MarshalSigned"
    /\ wire.tampered = "payload"
    /\ call.domain = PeerRecordEnvelopeDomain

\* C6: an envelope whose signature is valid under the domain and whose
\* payload type is not registered validates, and the call fails with
\* UnknownPayloadType, returning the validated envelope and no record; the
\* tag "/libp2p/peer-record", registered by init, is never reported unknown.
C6_UnknownPayloadType ==
    /\ PeerRecordEnvelopePayloadType \in DOMAIN payloadTypeRegistry
    /\ (Returned /\ call.env # <<>> /\ Validate(call.env[1], call.domain)) =>
        /\ call.env[1].PayloadType \notin DOMAIN payloadTypeRegistry =>
               /\ InPath("validated")
               /\ call.err = "UnknownPayloadType"
               /\ call.retEnv = call.env
               /\ call.retRec = <<>>
               /\ call.decodes = 0
        /\ call.env[1].PayloadType = PeerRecordEnvelopePayloadType =>
               call.err # "UnknownPayloadType"
        /\ call.err = "UnknownPayloadType" =>
               call.env[1].PayloadType \notin DOMAIN payloadTypeRegistry

\* an envelope sealed under an unregistered payload type was consumed under
\* the domain it was signed for
C6_Witness ==
    /\ call.stage = "rejected"
    /\ call.err = "UnknownPayloadType"
    /\ wire.from = "Seal"
    /\ wire.tampered = "no"
    /\ call.domain = wire.domain
    /\ call.retEnv # <<>>
=============================================================================
